---------------------------- MODULE Spec2Model ----------------------------
(***************************************************************************)
(* Model of scripts/create-github-issues.py: the story parser              *)
(* (parse_markdown_file), the body assembler (generate_issue_body), the    *)
(* label deriver (get_labels) and the batch run (main and                  *)
(* create_issues_from_directory).                                          *)
(*                                                                         *)
(* Text that the code scans (file names, documents, categories, section    *)
(* contents) is a sequence of tokens: the single characters "#", " ",     *)
(* "\n", ":", "-" and words that the code's patterns treat as a unit. *)
(* Labels are strings, built by concatenation as the f-strings build them. *)
(***************************************************************************)
EXTENDS Integers, Sequences, FiniteSets, TLC

VARIABLES
    pc,          \* position of the modelled call or of main
    story_id,    \* get_labels: first argument
    metadata,    \* get_labels: second argument (a mapping; absent keys are absent)
    labels,      \* get_labels: returned list
    filepath,    \* parse_markdown_file: the file's name, as tokens
    content,     \* parse_markdown_file: the file's text, as tokens
    sections,    \* parse_markdown_file: returned dict / generate_issue_body: argument
    issue_body,  \* generate_issue_body: returned text
    directory,   \* main: the files of docs/user-stories (name -> text)
    argv,        \* main: whether "--no-dry-run" was given
    todo,        \* create_issues_from_directory: story files still to process
    output,      \* what was printed per story, in order
    summary      \* what main printed in its summary

vars == <<pc, story_id, metadata, labels, filepath, content, sections,
          issue_body, directory, argv, todo, output, summary>>

-----------------------------------------------------------------------------
(* Bounds of the model *)

\* largest sprint number drawn as an input (the table's largest is 10)
MaxSprint == 11
\* story points are drawn from 0..MaxSp and the table's values 8 and 30
MaxSp == 1
\* a category is a concatenation of at most MaxCatParts parts
MaxCatParts == 2
\* a document has at most MaxLines lines
MaxLines == 3
\* a directory holds at most MaxFiles files
MaxFiles == 3

-----------------------------------------------------------------------------
(* Helpers on sequences *)

Min(S) == CHOOSE x \in S : \A y \in S : x <= y

Max(S) == CHOOSE x \in S : \A y \in S : x >= y

\* Python's `sub in s` on texts
Contains(s, sub) ==
    \E i \in 0..(Len(s) - Len(sub)) : SubSeq(s, i + 1, i + Len(sub)) = sub

\* whether text s holds pattern sub at index i
At(s, i, sub) ==
    /\ i >= 1
    /\ i + Len(sub) - 1 <= Len(s)
    /\ SubSeq(s, i, i + Len(sub) - 1) = sub

RECURSIVE Join(_, _)
\* Python's sep.join(parts) on texts
Join(parts, sep) ==
    IF parts = <<>> THEN <<>>
    ELSE IF Len(parts) = 1 THEN parts[1]
    ELSE parts[1] \o sep \o Join(Tail(parts), sep)

\* all sequences over S of length at most n
SeqsUpTo(S, n) == UNION { [1..k -> S] : k \in 0..n }

-----------------------------------------------------------------------------
(* Static tables *)

COMPLETED_STORIES == {"US-001", "US-002", "US-003", "US-004", "US-019"}

CorePackage == <<"Core", " ", "Package">>
ExtensionPackage == <<"Extension", " ", "Package">>
TestingSamples == <<"Testing", " ", "&", " ", "Samples">>
Documentation == <<"Documentation">>

MetaRow(sprint, sp, category) ==
    [sprint |-> sprint, sp |-> sp, category |-> category]

\* The rows of the table for the identifiers the model draws.
STORY_METADATA ==
    [id \in {"US-001", "US-004", "US-005", "US-019", "US-026", "US-029"} |->
        CASE id = "US-001" -> MetaRow(1, 3, CorePackage)
          [] id = "US-004" -> MetaRow(2, 8, CorePackage)
          [] id = "US-005" -> MetaRow(1, 5, CorePackage)
          [] id = "US-019" -> MetaRow(6, 5, ExtensionPackage)
          [] id = "US-026" -> MetaRow(9, 30, TestingSamples)
          [] id = "US-029" -> MetaRow(10, 8, Documentation)]

\* STORY_METADATA.get(story_id, {})
MetadataFor(id) ==
    IF id \in DOMAIN STORY_METADATA THEN STORY_METADATA[id] ELSE <<>>

-----------------------------------------------------------------------------
(* get_labels *)

Digit(d) ==
    CASE d = 0 -> "0" [] d = 1 -> "1" [] d = 2 -> "2" [] d = 3 -> "3"
      [] d = 4 -> "4" [] d = 5 -> "5" [] d = 6 -> "6" [] d = 7 -> "7"
      [] d = 8 -> "8" [] d = 9 -> "9"

RECURSIVE NatToStr(_)
NatToStr(n) ==
    IF n < 10 THEN Digit(n) ELSE NatToStr(n \div 10) \o Digit(n % 10)

\* the text an f-string gives an int
FormatInt(n) == IF n < 0 THEN "-" \o NatToStr(0 - n) ELSE NatToStr(n)

\* metadata.get(key) is not None
Has(m, key) == key \in DOMAIN m

\* `if value:` for value = metadata.get(key), an int or None
Truthy(m, key) == Has(m, key) /\ m[key] # 0

StatusLabelsFlipped(id) ==
    IF id \in COMPLETED_STORIES THEN <<"status:not-started">>
    ELSE <<"status:complete">>

StatusLabels(id) ==
    IF id \in COMPLETED_STORIES THEN <<"status:complete">>
    ELSE <<"status:not-started">>

SpLabels(m) ==
    IF Truthy(m, "sp") THEN <<"sp-" \o FormatInt(m["sp"])>> ELSE <<>>

SprintLabels(m) ==
    IF Truthy(m, "sprint") THEN <<"sprint-" \o FormatInt(m["sprint"])>> ELSE <<>>

\* metadata.get("category", "")
CategoryOf(m) == IF Has(m, "category") THEN m["category"] ELSE <<>>

CategoryLabelsDocFirst(m) ==
    LET category == CategoryOf(m) IN
    IF Contains(category, CorePackage) THEN <<"core-package">>
    ELSE IF Contains(category, ExtensionPackage) THEN <<"extension-package">>
    ELSE IF Contains(category, <<"Documentation">>) THEN <<"documentation">>
    ELSE IF Contains(category, <<"Testing">>) \/ Contains(category, <<"Samples">>)
         THEN <<"testing">>
    ELSE <<>>

CategoryLabels(m) ==
    LET category == CategoryOf(m) IN
    IF Contains(category, CorePackage) THEN <<"core-package">>
    ELSE IF Contains(category, ExtensionPackage) THEN <<"extension-package">>
    ELSE IF Contains(category, <<"Testing">>) \/ Contains(category, <<"Samples">>)
         THEN <<"testing">>
    ELSE IF Contains(category, <<"Documentation">>) THEN <<"documentation">>
    ELSE <<>>

PriorityLabelsStrict(m) ==
    IF Truthy(m, "sprint") /\ m["sprint"] < 2 THEN <<"priority:p0">>
    ELSE IF Truthy(m, "sprint") /\ m["sprint"] < 4 THEN <<"priority:p1">>
    ELSE IF Truthy(m, "sprint") /\ m["sprint"] < 8 THEN <<"priority:p2">>
    ELSE <<"priority:p3">>

PriorityLabels(m) ==
    IF Truthy(m, "sprint") /\ m["sprint"] <= 2 THEN <<"priority:p0">>
    ELSE IF Truthy(m, "sprint") /\ m["sprint"] <= 4 THEN <<"priority:p1">>
    ELSE IF Truthy(m, "sprint") /\ m["sprint"] <= 8 THEN <<"priority:p2">>
    ELSE <<"priority:p3">>

get_labels_sprint_first(id, m) ==
    <<"user-story">> \o StatusLabels(id) \o SprintLabels(m) \o SpLabels(m)
        \o CategoryLabels(m) \o PriorityLabels(m)

get_labels(id, m) ==
    <<"user-story">> \o StatusLabels(id) \o SpLabels(m) \o SprintLabels(m)
        \o CategoryLabels(m) \o PriorityLabels(m)

-----------------------------------------------------------------------------
(* parse_markdown_file *)

NL == "\n"

\* what Python's \s and str.strip() take for whitespace, among the tokens
Whitespace == {" ", NL}

\* the tokens that stand for a match of US-\d+
UsNumbers == {"US-1", "US-2"}

\* str.strip()
Strip(s) ==
    LET solid == { i \in 1..Len(s) : s[i] \notin Whitespace } IN
    IF solid = {} THEN <<>> ELSE SubSeq(s, Min(solid), Max(solid))

RECURSIVE SplitOn(_, _)
\* str.split(sep)
SplitOn(s, sep) ==
    LET hits == { i \in 1..Len(s) : s[i] = sep } IN
    IF hits = {} THEN <<s>>
    ELSE <<SubSeq(s, 1, Min(hits) - 1)>>
             \o SplitOn(SubSeq(s, Min(hits) + 1, Len(s)), sep)

RECURSIVE ConcatTokens(_)
\* the string a text of tokens spells
ConcatTokens(s) == IF s = <<>> THEN "" ELSE Head(s) \o ConcatTokens(Tail(s))

\* Path.stem: the name without its last suffix
Stem(path) ==
    IF Len(path) > 1 /\ path[Len(path)] \in {".md", ".txt"}
    THEN SubSeq(path, 1, Len(path) - 1) ELSE path

\* "-".join(filepath.stem.split("-")[0:2])
StoryIdOf(path) ==
    LET parts == SplitOn(Stem(path), "-")
        first == SubSeq(parts, 1, IF Len(parts) < 2 THEN Len(parts) ELSE 2)
    IN  ConcatTokens(Join(first, <<"-">>))

\* the index of the last token of the run of non-newline tokens that starts
\* at p (p - 1 when the run is empty): where a greedy .+ or .* stops
LineEnd(c, p) ==
    Max({p - 1} \cup { q \in p..Len(c) : \A k \in p..q : c[k] # NL })

\* re.search(r"^# (US-\d+): (.+)$", content, re.MULTILINE): group 2 or the default
TitleOf(c) ==
    LET starts == { i \in 1..Len(c) :
                      /\ (i = 1 \/ c[i - 1] = NL)
                      /\ i + 5 <= Len(c)
                      /\ c[i] = "#" /\ c[i + 1] = " "
                      /\ c[i + 2] \in UsNumbers
                      /\ c[i + 3] = ":" /\ c[i + 4] = " "
                      /\ c[i + 5] # NL }
    IN  IF starts = {} THEN <<"Unknown Title">>
        ELSE SubSeq(c, Min(starts) + 5, LineEnd(c, Min(starts) + 5))

ScalarFieldOneDefault(c, marker, default) ==
    LET starts == { i \in 1..Len(c) :
                      /\ i + 3 <= Len(c)
                      /\ c[i] = marker /\ c[i + 1] = ":" /\ c[i + 2] = " "
                      /\ c[i + 3] # NL }
    IN  IF starts = {} THEN <<"Unknown">>
        ELSE SubSeq(c, Min(starts) + 3, LineEnd(c, Min(starts) + 3))

\* re.search(r"\*\*<Marker>\*\*: (.+)", content): group 1 or the default
ScalarField(c, marker, default) ==
    LET starts == { i \in 1..Len(c) :
                      /\ i + 3 <= Len(c)
                      /\ c[i] = marker /\ c[i + 1] = ":" /\ c[i + 2] = " "
                      /\ c[i + 3] # NL }
    IN  IF starts = {} THEN default
        ELSE SubSeq(c, Min(starts) + 3, LineEnd(c, Min(starts) + 3))

\* the (field, section name) pairs, in the order of section_patterns
section_patterns ==
    << <<"description", "Description">>,
       <<"acceptance_criteria", "Acceptance Criteria">>,
       <<"technical_requirements", "Technical Requirements">>,
       <<"testing_requirements", "Testing Requirements">>,
       <<"performance_requirements", "Performance Requirements">>,
       <<"dependencies", "Dependencies">>,
       <<"definition_of_done", "Definition of Done">>,
       <<"notes", "Notes">>,
       <<"related_docs", "Related Documentation">> >>

\* the literal "## <name>" of a section pattern
HeadingText(name) == <<"#", "#", " ", name>>

\* the literal "\n## " of the lookahead
NextHeading == <<NL, "#", "#", " ">>

\* For a match of "## <name>" at i: the index of the newline that the
\* pattern's \n takes after the greedy \s* has backtracked, i.e. the last
\* newline of the whitespace run that follows the name; 0 when the run has none.
HeadingNewline(c, i) ==
    LET p == i + 4
        run == { q \in p..Len(c) : \A k \in p..q : c[k] \in Whitespace }
        nls == { q \in run : c[q] = NL }
    IN  IF nls = {} THEN 0 ELSE Max(nls)

\* re.search(r"## <name>\s*\n(.*?)(?=\n## |\Z)", content, re.DOTALL):
\* group(1).strip(), or "" without a match
SectionField(c, name) ==
    LET starts == { i \in 1..Len(c) :
                      At(c, i, HeadingText(name)) /\ HeadingNewline(c, i) # 0 }
    IN  IF starts = {} THEN <<>>
        ELSE LET from == HeadingNewline(c, Min(starts)) + 1
                 stops == { e \in from..(Len(c) + 1) :
                              e = Len(c) + 1 \/ At(c, e, NextHeading) }
             IN  Strip(SubSeq(c, from, Min(stops) - 1))

ScalarNames == {"story_id", "title", "status", "category", "effort", "sprint"}

SectionFields == { section_patterns[i][1] : i \in 1..Len(section_patterns) }

SectionNameOf(field) ==
    LET i == CHOOSE j \in 1..Len(section_patterns) : section_patterns[j][1] = field
    IN  section_patterns[i][2]

\* the returned dict; <<"Not Started">> stands for the sentinel of line 92
\* (a cross mark followed by "Not Started")
parse_markdown_file(path, c) ==
    [f \in ScalarNames \cup SectionFields |->
        CASE f = "story_id" -> StoryIdOf(path)
          [] f = "title" -> TitleOf(c)
          [] f = "status" -> ScalarField(c, "**Status**", <<"Not Started">>)
          [] f = "category" -> ScalarField(c, "**Category**", <<"Unknown">>)
          [] f = "effort" -> ScalarField(c, "**Effort**", <<"Unknown">>)
          [] f = "sprint" -> ScalarField(c, "**Sprint**", <<"Unknown">>)
          [] OTHER -> SectionField(c, SectionNameOf(f))]

-----------------------------------------------------------------------------
(* generate_issue_body *)

\* the (field, heading) pairs in the order of the function's if-statements
body_blocks ==
    << <<"description", "Description">>,
       <<"acceptance_criteria", "Acceptance Criteria">>,
       <<"technical_requirements", "Technical Requirements">>,
       <<"testing_requirements", "Testing Requirements">>,
       <<"performance_requirements", "Performance Requirements">>,
       <<"dependencies", "Dependencies">>,
       <<"definition_of_done", "Definition of Done">>,
       <<"notes", "Notes">>,
       <<"related_docs", "Related Documentation">> >>

\* `if sections.get(field):`
Present(s, field) == field \in DOMAIN s /\ s[field] # <<>>

\* f"## <Heading>\n\n{sections[field]}"
Block(heading, text) == <<"#", "#", " ", heading, NL, NL>> \o text

RECURSIVE BodyPartsFrom(_, _)
\* body_parts after the if-statements from the i-th on
BodyPartsFrom(s, i) ==
    IF i > Len(body_blocks) THEN <<>>
    ELSE (IF Present(s, body_blocks[i][1])
          THEN <<Block(body_blocks[i][2], s[body_blocks[i][1]])>>
          ELSE <<>>) \o BodyPartsFrom(s, i + 1)

RECURSIVE BodyPartsAllFrom(_, _)
BodyPartsAllFrom(s, i) ==
    IF i > Len(body_blocks) THEN <<>>
    ELSE <<Block(body_blocks[i][2], s[body_blocks[i][1]])>>
             \o BodyPartsAllFrom(s, i + 1)

generate_issue_body_all(s) == Join(BodyPartsAllFrom(s, 1), <<NL, NL>>)

generate_issue_body(s) == Join(BodyPartsFrom(s, 1), <<NL, NL>>)

-----------------------------------------------------------------------------
(* Inputs *)

\* an optional value: <<>> (absent) or <<x>>
Option(S) == {<<>>} \cup { <<x>> : x \in S }

StoryIds == {"US-004", "US-005", "US-031"}

Sprints == (0 - 1)..MaxSprint

StoryPoints == (0..MaxSp) \cup {8, 30}

CatParts ==
    {CorePackage, ExtensionPackage, <<"Testing">>, <<"Samples">>, Documentation,
     <<" ", "&", " ">>, <<"Misc">>}

Categories == { Join(ps, <<>>) : ps \in SeqsUpTo(CatParts, MaxCatParts) }

\* the mapping with the given optional entries
MkMetadata(spO, sprintO, catO) ==
    [k \in (IF spO # <<>> THEN {"sp"} ELSE {})
             \cup (IF sprintO # <<>> THEN {"sprint"} ELSE {})
             \cup (IF catO # <<>> THEN {"category"} ELSE {}) |->
        CASE k = "sp" -> spO[1]
          [] k = "sprint" -> sprintO[1]
          [] k = "category" -> catO[1]]

Metadatas ==
    { MkMetadata(spO, sprintO, catO) :
        spO \in Option(StoryPoints), sprintO \in Option(Sprints),
        catO \in Option(Categories) }

LineKinds ==
    { <<"#", "#", " ", "Description">>,
      <<"#", "#", " ", "Notes">>,
      <<"#", "#", "#", " ", "Notes">>,
      <<"x", " ", "#", "#", " ", "Notes">>,
      <<"#", "#", " ", "Other">>,
      <<>>,
      <<"x">>,
      <<"#", " ", "US-1", ":", " ", "T">>,
      <<"**Status**", ":", " ", "S">>,
      <<"**Category**", ":", " ", "C">> }

Documents == { Join(ls, <<NL>>) : ls \in SeqsUpTo(LineKinds, MaxLines) }

SectionTexts == {<<>>, <<"a">>, <<"b", NL, NL, "c">>}

SectionRecords == [SectionFields -> SectionTexts]

\* every file name the model draws, in the order sorted() gives paths
FileOrder ==
    << <<"README", ".md">>,
       <<"US", "-", "001", "-", "a", ".md">>,
       <<"US", "-", "001", "-", "b", ".md">>,
       <<"US", "-", "002", ".txt">>,
       <<"US", "-", "004", ".md">>,
       <<"US", "-", "005", "-", "x", ".md">>,
       <<"US", "-", "031", ".md">> >>

FileNames == { FileOrder[i] : i \in 1..Len(FileOrder) }

FileDocs ==
    { <<>>,
      <<"#", " ", "US-1", ":", " ", "T", NL,
        "#", "#", " ", "Description", NL, "x", NL>> }

Directories ==
    { [exists |-> FALSE, files |-> <<>>] }
      \cup { [exists |-> TRUE, files |-> f] :
               f \in UNION { [D -> FileDocs] :
                               D \in { S \in SUBSET FileNames :
                                         Cardinality(S) <= MaxFiles } } }

-----------------------------------------------------------------------------
(* The calls, each on inputs drawn at the start *)

LabelInit ==
    /\ pc = "get_labels"
    /\ story_id \in StoryIds
    /\ metadata \in Metadatas
    /\ labels = <<>>
    /\ filepath = <<>>
    /\ content = <<>>
    /\ sections = <<>>
    /\ issue_body = <<>>
    /\ directory = [exists |-> FALSE, files |-> <<>>]
    /\ argv = FALSE
    /\ todo = <<>>
    /\ output = <<>>
    /\ summary = <<>>

GetLabels ==
    /\ pc = "get_labels"
    /\ labels' = get_labels(story_id, metadata)
    /\ pc' = "labels_returned"
    /\ UNCHANGED <<story_id, metadata, filepath, content, sections, issue_body,
                   directory, argv, todo, output, summary>>

LabelSpec == LabelInit /\ [][GetLabels]_vars

ParseInit ==
    /\ pc = "parse_markdown_file"
    /\ filepath \in {FileOrder[2], FileOrder[5]}
    /\ content \in Documents
    /\ story_id = ""
    /\ metadata = <<>>
    /\ labels = <<>>
    /\ sections = <<>>
    /\ issue_body = <<>>
    /\ directory = [exists |-> FALSE, files |-> <<>>]
    /\ argv = FALSE
    /\ todo = <<>>
    /\ output = <<>>
    /\ summary = <<>>

ParseMarkdownFile ==
    /\ pc = "parse_markdown_file"
    /\ sections' = parse_markdown_file(filepath, content)
    /\ pc' = "parsed"
    /\ UNCHANGED <<story_id, metadata, labels, filepath, content, issue_body,
                   directory, argv, todo, output, summary>>

ParseSpec == ParseInit /\ [][ParseMarkdownFile]_vars

BodyInit ==
    /\ pc = "generate_issue_body"
    /\ sections \in SectionRecords
    /\ story_id = ""
    /\ metadata = <<>>
    /\ labels = <<>>
    /\ filepath = <<>>
    /\ content = <<>>
    /\ issue_body = <<>>
    /\ directory = [exists |-> FALSE, files |-> <<>>]
    /\ argv = FALSE
    /\ todo = <<>>
    /\ output = <<>>
    /\ summary = <<>>

GenerateIssueBody ==
    /\ pc = "generate_issue_body"
    /\ issue_body' = generate_issue_body(sections)
    /\ pc' = "body_returned"
    /\ UNCHANGED <<story_id, metadata, labels, filepath, content, sections,
                   directory, argv, todo, output, summary>>

BodySpec == BodyInit /\ [][GenerateIssueBody]_vars

-----------------------------------------------------------------------------
(* main and create_issues_from_directory *)

\* user_stories_dir.glob("US-*.md")
Glob(files) ==
    { n \in DOMAIN files :
        Len(n) >= 3 /\ n[1] = "US" /\ n[2] = "-" /\ n[Len(n)] = ".md" }

\* sorted(paths)
Sorted(S) == SelectSeq(FileOrder, LAMBDA n : n \in S)

\* the "Completed stories" figure of the summary
SummaryCompletedCount(files) == Cardinality(COMPLETED_STORIES)

\* the three figures main prints after the run
SummaryOf(files) ==
    [total |-> Cardinality(Glob(files)),
     completed |-> SummaryCompletedCount(files),
     not_started |-> Cardinality(Glob(files)) - SummaryCompletedCount(files)]

\* the status line printed for a story
StatusLine(id) == IF id \in COMPLETED_STORIES THEN "COMPLETE" ELSE "NOT STARTED"

Init ==
    /\ pc = "main"
    /\ directory \in Directories
    /\ argv \in BOOLEAN
    /\ story_id = ""
    /\ metadata = <<>>
    /\ labels = <<>>
    /\ filepath = <<>>
    /\ content = <<>>
    /\ sections = <<>>
    /\ issue_body = <<>>
    /\ todo = <<>>
    /\ output = <<>>
    /\ summary = <<>>

\* main, lines 276-278: the directory is missing, sys.exit(1)
MainNoDirectory ==
    /\ pc = "main"
    /\ ~directory.exists
    /\ pc' = "exit"
    /\ UNCHANGED <<story_id, metadata, labels, filepath, content, sections,
                   issue_body, directory, argv, todo, output, summary>>

\* main with --no-dry-run: create_issues_from_directory reports that the
\* integration is disabled and returns before it looks for files
MainNoDryRun ==
    /\ pc = "main"
    /\ directory.exists
    /\ argv
    /\ pc' = "summary"
    /\ UNCHANGED <<story_id, metadata, labels, filepath, content, sections,
                   issue_body, directory, argv, todo, output, summary>>

\* main in dry-run mode up to the start of the loop over the story files
MainDryRun ==
    /\ pc = "main"
    /\ directory.exists
    /\ ~argv
    /\ todo' = Sorted(Glob(directory.files))
    /\ pc' = IF todo' = <<>> THEN "summary" ELSE "loop"
    /\ UNCHANGED <<story_id, metadata, labels, filepath, content, sections,
                   issue_body, directory, argv, output, summary>>

\* one iteration of the loop over story_files
ProcessStory ==
    /\ pc = "loop"
    /\ todo # <<>>
    /\ filepath' = Head(todo)
    /\ content' = directory.files[Head(todo)]
    /\ sections' = parse_markdown_file(filepath', content')
    /\ story_id' = sections'["story_id"]
    /\ metadata' = MetadataFor(story_id')
    /\ labels' = get_labels(story_id', metadata')
    /\ issue_body' = generate_issue_body(sections')
    /\ output' = Append(output,
                        [story |-> story_id',
                         title |-> <<"[USER STORY]: ", story_id', " - ">>
                                       \o sections'["title"],
                         labels |-> labels',
                         status |-> StatusLine(story_id'),
                         body |-> issue_body'])
    /\ todo' = Tail(todo)
    /\ pc' = IF todo' = <<>> THEN "summary" ELSE "loop"
    /\ UNCHANGED <<directory, argv, summary>>

\* main, lines 292-297
PrintSummary ==
    /\ pc = "summary"
    /\ summary' = SummaryOf(directory.files)
    /\ pc' = "done"
    /\ UNCHANGED <<story_id, metadata, labels, filepath, content, sections,
                   issue_body, directory, argv, todo, output>>

Next ==
    \/ MainNoDirectory
    \/ MainNoDryRun
    \/ MainDryRun
    \/ ProcessStory
    \/ PrintSummary

Spec == Init /\ [][Next]_vars

-----------------------------------------------------------------------------
(* Properties of get_labels *)

Range(f) == { f[i] : i \in DOMAIN f }

StatusLabelSet == {"status:complete", "status:not-started"}

PriorityLabelSet == {"priority:p0", "priority:p1", "priority:p2", "priority:p3"}

CategoryLabelSet == {"core-package", "extension-package", "testing", "documentation"}

SpLabelSet == { "sp-" \o FormatInt(n) : n \in StoryPoints }

SprintLabelSet == { "sprint-" \o FormatInt(n) : n \in Sprints }

\* how many entries of the returned list lie in the set L
CountIn(L) == Cardinality({ i \in DOMAIN labels : labels[i] \in L })

\* C1: get_labels emits exactly one status label: "status:complete" when the
\* identifier is in COMPLETED_STORIES and "status:not-started" otherwise; a
\* completed identifier never gets "status:not-started", whatever the metadata.
C1_OneStatusLabel ==
    pc = "labels_returned" =>
        /\ CountIn(StatusLabelSet) = 1
        /\ story_id \in COMPLETED_STORIES =>
               /\ "status:complete" \in Range(labels)
               /\ "status:not-started" \notin Range(labels)
        /\ story_id \notin COMPLETED_STORIES =>
               /\ "status:not-started" \in Range(labels)
               /\ "status:complete" \notin Range(labels)

\* a completed identifier labelled under a metadata that has every entry
C1_Witness ==
    /\ pc = "labels_returned"
    /\ story_id \in COMPLETED_STORIES
    /\ DOMAIN metadata = {"sp", "sprint", "category"}
    /\ "status:complete" \in Range(labels)

\* C2: get_labels emits exactly one priority label, chosen by the metadata
\* sprint: 1 or 2 gives p0, 3 or 4 gives p1, 5 through 8 gives p2, 9 or 10
\* gives p3, and a metadata without a sprint entry gives p3.
C2_PriorityBySprint ==
    pc = "labels_returned" =>
        /\ CountIn(PriorityLabelSet) = 1
        /\ ~Has(metadata, "sprint") => "priority:p3" \in Range(labels)
        /\ Has(metadata, "sprint") =>
               /\ metadata["sprint"] \in {1, 2} => "priority:p0" \in Range(labels)
               /\ metadata["sprint"] \in {3, 4} => "priority:p1" \in Range(labels)
               /\ metadata["sprint"] \in 5..8 => "priority:p2" \in Range(labels)
               /\ metadata["sprint"] \in {9, 10} => "priority:p3" \in Range(labels)

\* a sprint on the upper edge of a tier
C2_Witness ==
    /\ pc = "labels_returned"
    /\ Has(metadata, "sprint")
    /\ metadata["sprint"] = 8
    /\ "priority:p2" \in Range(labels)

\* C3: get_labels emits at most one category label, selected by the first
\* matching rule in the order Core Package, Extension Package, Testing or
\* Samples, Documentation, else none; a category holding both "Testing" and
\* "Documentation" yields "testing" and never "documentation".
C3_CategoryFirstMatch ==
    pc = "labels_returned" =>
        LET category == IF Has(metadata, "category") THEN metadata["category"] ELSE <<>>
            core == Contains(category, <<"Core", " ", "Package">>)
            ext == Contains(category, <<"Extension", " ", "Package">>)
            test == Contains(category, <<"Testing">>) \/ Contains(category, <<"Samples">>)
            doc == Contains(category, <<"Documentation">>)
            got == Range(labels) \cap CategoryLabelSet
        IN  /\ CountIn(CategoryLabelSet) <= 1
            /\ core => got = {"core-package"}
            /\ (~core /\ ext) => got = {"extension-package"}
            /\ (~core /\ ~ext /\ test) => got = {"testing"}
            /\ (~core /\ ~ext /\ ~test /\ doc) => got = {"documentation"}
            /\ (~core /\ ~ext /\ ~test /\ ~doc) => got = {}

\* a category that holds both "Testing" and "Documentation"
C3_Witness ==
    /\ pc = "labels_returned"
    /\ Has(metadata, "category")
    /\ Contains(metadata["category"], <<"Testing">>)
    /\ Contains(metadata["category"], <<"Documentation">>)
    /\ "testing" \in Range(labels)

\* C4: whenever the sprint entry is present with integer value n (0 included)
\* get_labels emits "sprint-n", whenever the story-points entry is present
\* with value m (0 included) it emits "sp-m", and when the entry is absent no
\* such label is emitted.
C4_PresentEntryLabelled ==
    pc = "labels_returned" =>
        /\ Has(metadata, "sprint") =>
               ("sprint-" \o FormatInt(metadata["sprint"])) \in Range(labels)
        /\ Has(metadata, "sp") =>
               ("sp-" \o FormatInt(metadata["sp"])) \in Range(labels)
        /\ ~Has(metadata, "sprint") => Range(labels) \cap SprintLabelSet = {}
        /\ ~Has(metadata, "sp") => Range(labels) \cap SpLabelSet = {}

\* the class of a label in the fixed order of the returned list
LabelClass(l) ==
    CASE l = "user-story" -> 1
      [] l \in StatusLabelSet -> 2
      [] l \in SpLabelSet -> 3
      [] l \in SprintLabelSet -> 4
      [] l \in CategoryLabelSet -> 5
      [] l \in PriorityLabelSet -> 6
      [] OTHER -> 0

\* the metadata of the example: {sprint: 2, sp: 8, category: "Core Package"}
ExampleMetadata == [sprint |-> 2, sp |-> 8, category |-> <<"Core", " ", "Package">>]

\* C5: the returned list holds no label twice and its labels appear in the
\* order "user-story", status, "sp-", "sprint-", category, priority; for an
\* identifier outside the Completed-Set with the example metadata it is
\* exactly the list of the example.
C5_OrderedNoDuplicates ==
    pc = "labels_returned" =>
        /\ \A i, j \in DOMAIN labels : i # j => labels[i] # labels[j]
        /\ \A i \in DOMAIN labels : LabelClass(labels[i]) # 0
        /\ \A i, j \in DOMAIN labels :
               i < j => LabelClass(labels[i]) < LabelClass(labels[j])
        /\ Len(labels) >= 3
        /\ labels[1] = "user-story"
        /\ LabelClass(labels[2]) = 2
        /\ LabelClass(labels[Len(labels)]) = 6
        /\ (story_id \notin COMPLETED_STORIES /\ metadata = ExampleMetadata) =>
               labels = <<"user-story", "status:not-started", "sp-8", "sprint-2",
                          "core-package", "priority:p0">>

\* the example's call has returned
C5_Witness ==
    /\ pc = "labels_returned"
    /\ story_id = "US-005"
    /\ metadata = ExampleMetadata
    /\ Len(labels) = 6

-----------------------------------------------------------------------------
(* Properties of parse_markdown_file *)

\* the lines of a document
Lines(c) == SplitOn(c, NL)

\* a level-2 heading line
IsH2(line) == At(line, 1, <<"#", "#", " ">>)

\* the heading line "## <name>", trailing blanks allowed
IsHeadingFor(line, name) ==
    /\ At(line, 1, <<"#", "#", " ", name>>)
    /\ \A k \in 5..Len(line) : line[k] = " "

\* the text between the first heading line of the section and the next
\* level-2 heading line (or the end), trimmed
TextUnderHeading(c, name) ==
    LET ls == Lines(c)
        h == Min({ i \in 1..Len(ls) : IsHeadingFor(ls[i], name) })
        next == Min({ j \in (h + 1)..Len(ls) : IsH2(ls[j]) } \cup {Len(ls) + 1})
    IN  Strip(Join(SubSeq(ls, h + 1, next - 1), <<NL>>))

HasHeadingLine(c, name) ==
    \E i \in 1..Len(Lines(c)) : IsHeadingFor(Lines(c)[i], name)

\* the section name occurs in the document, and only in its heading lines
NameOnlyInHeadingLines(c, name) ==
    \A i \in 1..Len(Lines(c)) :
        Contains(Lines(c)[i], <<name>>) => IsHeadingFor(Lines(c)[i], name)

\* C6: the text captured for a section is exactly the trimmed text between
\* its "## <Section Name>" heading line and the next level-2 heading line or
\* the end of the document, and never includes a following level-2 heading
\* line, also when the section is empty. (Stated for documents in which the
\* section's name occurs in its heading lines only.)
C6_SectionIsTextUnderHeading ==
    pc = "parsed" =>
        \A i \in 1..Len(section_patterns) :
            LET field == section_patterns[i][1]
                name == section_patterns[i][2]
            IN  (HasHeadingLine(content, name)
                   /\ NameOnlyInHeadingLines(content, name)) =>
                    sections[field] = TextUnderHeading(content, name)

\* C9: a named section is located only at a level-2 heading line: when the
\* section's name occurs only in a heading of lower level or in the middle of
\* a line, the section's field is the empty string.
C9_OnlyLevelTwoHeadings ==
    pc = "parsed" =>
        \A i \in 1..Len(section_patterns) :
            LET field == section_patterns[i][1]
                name == section_patterns[i][2]
            IN  (Contains(content, <<name>>) /\ ~HasHeadingLine(content, name)) =>
                    sections[field] = <<>>

\* the indices of the lines "# US-<n>: <text>"
TitleLines(c) ==
    { i \in 1..Len(Lines(c)) :
        /\ Len(Lines(c)[i]) >= 6
        /\ \E id \in UsNumbers : At(Lines(c)[i], 1, <<"#", " ", id, ":", " ">>) }

\* the indices of the lines that hold "<marker>: <text>"
MarkerLines(c, marker) ==
    { i \in 1..Len(Lines(c)) :
        \E k \in 1..Len(Lines(c)[i]) :
            At(Lines(c)[i], k, <<marker, ":", " ">>) /\ k + 3 <= Len(Lines(c)[i]) }

\* the text after the first "<marker>: " of a line
AfterMarker(line, marker) ==
    LET k == Min({ j \in 1..Len(line) : At(line, j, <<marker, ":", " ">>) })
    IN  SubSeq(line, k + 3, Len(line))

-----------------------------------------------------------------------------
(* Properties of generate_issue_body *)

\* the sections in the fixed order of the body, each with its heading
CanonicalOrder ==
    << [field |-> "description", heading |-> "Description"],
       [field |-> "acceptance_criteria", heading |-> "Acceptance Criteria"],
       [field |-> "technical_requirements", heading |-> "Technical Requirements"],
       [field |-> "testing_requirements", heading |-> "Testing Requirements"],
       [field |-> "performance_requirements", heading |-> "Performance Requirements"],
       [field |-> "dependencies", heading |-> "Dependencies"],
       [field |-> "definition_of_done", heading |-> "Definition of Done"],
       [field |-> "notes", heading |-> "Notes"],
       [field |-> "related_docs", heading |-> "Related Documentation"] >>

RECURSIVE ExpectedBodyFrom(_, _, _)
\* the body written block after block: a blank line before every block but
\* the first, then "## <Heading>", a blank line and the content
ExpectedBodyFrom(s, i, acc) ==
    IF i > Len(CanonicalOrder) THEN acc
    ELSE LET e == CanonicalOrder[i] IN
         IF s[e.field] = <<>> THEN ExpectedBodyFrom(s, i + 1, acc)
         ELSE ExpectedBodyFrom(s, i + 1,
                  (IF acc = <<>> THEN <<>> ELSE acc \o <<NL, NL>>)
                      \o <<"#", "#", " ", e.heading, NL, NL>> \o s[e.field])

\* the non-empty sections of the record
PresentFields(s) == { f \in SectionFields : s[f] # <<>> }

\* C8: generate_issue_body returns the blocks "## <Heading>\n\n<content>" of
\* exactly the non-empty sections, in the fixed order, joined by exactly one
\* blank line; an empty section adds neither a block nor a separator, so nine
\* present sections give nine blocks and none gives the empty body.
C8_BodyBlocks ==
    pc = "body_returned" =>
        /\ issue_body = ExpectedBodyFrom(sections, 1, <<>>)
        /\ Cardinality({ i \in 1..Len(issue_body) :
                           At(issue_body, i, <<"#", "#", " ">>) })
               = Cardinality(PresentFields(sections))
        /\ (issue_body = <<>>) <=> (PresentFields(sections) = {})
        /\ issue_body # <<>> =>
               issue_body[1] = "#" /\ issue_body[Len(issue_body)] # NL
        /\ ~Contains(issue_body, <<NL, NL, NL, "#">>)

\* a record with both present and empty sections, the first one empty
C8_Witness ==
    /\ pc = "body_returned"
    /\ sections["description"] = <<>>
    /\ sections["dependencies"] = <<>>
    /\ sections["acceptance_criteria"] # <<>>
    /\ sections["notes"] # <<>>
    /\ Len(issue_body) > 0

-----------------------------------------------------------------------------
(* Properties of the run *)

\* how many of the processed stories had the given status line
StatusLineCount(line) ==
    Cardinality({ i \in 1..Len(output) : output[i].status = line })

\* C10: after a dry run the summary agrees with the per-story output: the
\* "Completed stories" count is the number of processed stories whose status
\* line read COMPLETE, the "Not started stories" count the number whose
\* status line read NOT STARTED, the two sum to "Total stories", and neither
\* is negative.
C10_SummaryAgreesWithOutput ==
    (pc = "done" /\ ~argv) =>
        /\ summary.completed = StatusLineCount("COMPLETE")
        /\ summary.not_started = StatusLineCount("NOT STARTED")
        /\ summary.completed + summary.not_started = summary.total
        /\ summary.completed >= 0
        /\ summary.not_started >= 0

=============================================================================
